---- MODULE Spec2Model ----
(***************************************************************************)
(* A model of vscode-dired: the FileItem line codec (src/src/fileItem.ts)  *)
(* and the DiredProvider buffer operations (src/src/provider.ts).          *)
(*                                                                         *)
(* A JavaScript string is a sequence of one-character strings, so that     *)
(* substring, padding and concatenation are computed column by column.     *)
(* A JavaScript number is a record [nan, n]: parseInt may return NaN.      *)
(***************************************************************************)
EXTENDS Integers, Sequences, FiniteSets, TLC

VARIABLES
    \* --- FileItem codec runs (SpecCodec) ---
    item,        \* the FileItem under construction / decoded
    text,        \* the line last produced by item.line()
    parsed,      \* the FileItem FileItem.parseLine built from text
    rewritten,   \* the line written back after select(v) and line()
    cpc,         \* position of the codec run
    \* --- selection update runs (SpecSelect) ---
    shist,       \* the buffers: input, after one application, after two
    sargs,       \* [start, end, value, allow] of the update under test
    \* --- directory listing runs (SpecList) ---
    linput,      \* [names, fail, show]: the directory read, the names whose
                 \* stat throws, and _show_dot_files
    lfiles,      \* what readDir returned (FileItems)
    lpc,         \* position of the listing run
    \* --- DiredProvider and its collaborators (Spec) ---
    buffers,     \* DiredProvider._buffers
    showDotFiles,\* DiredProvider._show_dot_files
    docs,        \* the editor's loaded dired documents: uri -> lines
    active,      \* uri of vscode.window.activeTextEditor's document
    opening,     \* uris with an openTextDocument request in flight
    changed,     \* uris with an onDidChange notification in flight
    cursorMoves, \* "cursorMove" commands issued and not yet executed
    unhandled,   \* promise rejections nobody handles
    disk         \* the file system: the state of the directory /b

codecVars  == <<item, text, parsed, rewritten, cpc>>
selectVars == <<shist, sargs>>
listVars   == <<linput, lfiles, lpc>>
provVars   == <<buffers, showDotFiles, docs, active, opening, changed,
                cursorMoves, unhandled, disk>>
vars       == <<codecVars, selectVars, listVars, provVars>>

---------------------------------------------------------------------------
(* JavaScript strings and numbers *)

Min(a, b) == IF a < b THEN a ELSE b
Max(a, b) == IF a < b THEN b ELSE a

DigitChars == <<"0", "1", "2", "3", "4", "5", "6", "7", "8", "9">>
IsDigit(c) == \E i \in 1..10 : DigitChars[i] = c
DigitVal(c) == (CHOOSE i \in 1..10 : DigitChars[i] = c) - 1

Num(k) == [nan |-> FALSE, n |-> k]
NaN == [nan |-> TRUE, n |-> 0]

\* String.prototype.substring(a, b): both ends clamped to [0, length],
\* swapped when a > b; 0-based, b exclusive.
substring(s, a, b) ==
    LET ca == Max(0, Min(a, Len(s)))
        cb == Max(0, Min(b, Len(s)))
    IN SubSeq(s, Min(ca, cb) + 1, Max(ca, cb))

\* String.prototype.substring(a): to the end of the string.
substringFrom(s, a) == substring(s, a, Len(s))

RECURSIVE digitsOf(_)
digitsOf(k) ==
    IF k < 10 THEN <<DigitChars[k + 1]>>
    ELSE Append(digitsOf(k \div 10), DigitChars[(k % 10) + 1])

\* num + "" : the decimal numeral, "NaN" for NaN.
numToString(x) ==
    IF x.nan THEN <<"N", "a", "N">>
    ELSE IF x.n < 0 THEN <<"-">> \o digitsOf(0 - x.n)
    ELSE digitsOf(x.n)

RECURSIVE skipSpaces(_)
skipSpaces(s) ==
    IF s # <<>> /\ Head(s) = " " THEN skipSpaces(Tail(s)) ELSE s

RECURSIVE digitPrefix(_)
digitPrefix(s) ==
    IF s # <<>> /\ IsDigit(Head(s)) THEN <<Head(s)>> \o digitPrefix(Tail(s))
    ELSE <<>>

RECURSIVE digitsValue(_, _)
digitsValue(s, acc) ==
    IF s = <<>> THEN acc ELSE digitsValue(Tail(s), acc * 10 + DigitVal(Head(s)))

\* parseInt(s): leading white space skipped, an optional sign, then the
\* longest run of decimal digits; NaN when there is none.  (The "0x" prefix
\* is not modelled: no numeric column of a line can hold an "x".)
parseInt(s) ==
    LET t == skipSpaces(s)
        signed == t # <<>> /\ Head(t) \in {"-", "+"}
        u == IF signed THEN Tail(t) ELSE t
        d == digitPrefix(u)
    IN IF d = <<>> THEN NaN
       ELSE IF signed /\ Head(t) = "-" THEN Num(0 - digitsValue(d, 0))
       ELSE Num(digitsValue(d, 0))

---------------------------------------------------------------------------
(* FileItem *)

RECURSIVE padLoop(_, _, _)
padLoop(s, size, p) ==
    IF Len(s) < size THEN padLoop(<<p>> \o s, size, p) ELSE s

\* A pad that cuts the numeral to its last `size` characters.
padTruncating(num, size, p) ==
    LET s == padLoop(numToString(num), size, p)
    IN SubSeq(s, Len(s) - size + 1, Len(s))

\* FileItem.pad
pad(num, size, p) == padLoop(numToString(num), size, p)

Spaces8 == <<" ", " ", " ", " ", " ", " ", " ", " ">>

\* new FileItem(...)
FileItem(dirname, filename, isDirectory, isFile, username, groupname, size, month, day, hour, min, modeStr, selected) ==
    [dirname |-> dirname, filename |-> filename,
     isDirectory |-> isDirectory, isFile |-> isFile,
     username |-> username, groupname |-> groupname,
     size |-> size, month |-> month, day |-> day, hour |-> hour,
     min |-> min, modeStr |-> modeStr, selected |-> selected]

\* FileItem.select
select(f, value) == [f EXCEPT !.selected = value]

\* FileItem.line
line(f) ==
    LET u == substring(f.username \o Spaces8, 0, 8)
        g == substring(f.groupname \o Spaces8, 0, 8)
        size == pad(f.size, 8, " ")
        month == pad(f.month, 2, "0")
        day == pad(f.day, 2, "0")
        hour == pad(f.hour, 2, "0")
        min == pad(f.min, 2, "0")
        se == IF f.selected THEN "*" ELSE " "
        filename == IF f.isDirectory THEN Append(f.filename, "/")
                    ELSE f.filename
    IN <<se, " ">> \o f.modeStr \o <<" ">> \o u \o <<" ">> \o g \o <<" ">>
         \o size \o <<" ">> \o month \o <<" ">> \o day \o <<" ">>
         \o hour \o <<":">> \o min \o <<" ">> \o filename

\* FileItem.parseLine
parseLine(dir, l) ==
    LET filename == substringFrom(l, 52)
        username == substring(l, 13, 13 + 8)
        groupname == substring(l, 22, 22 + 8)
        size == parseInt(substring(l, 31, 31 + 8))
        month == parseInt(substring(l, 40, 40 + 2))
        day == parseInt(substring(l, 43, 43 + 2))
        hour == parseInt(substring(l, 46, 46 + 2))
        min == parseInt(substring(l, 49, 49 + 2))
        modeStr == substring(l, 2, 2 + 10)
        isDirectory == (substring(modeStr, 0, 0 + 1) = <<"d">>)
        isFile == (substring(modeStr, 0, 1) = <<"-">>)
        isSelected == (substring(l, 0, 1) = <<"*">>)
    IN FileItem(dir, filename, isDirectory, isFile, username, groupname,
                size, month, day, hour, min, modeStr, isSelected)

---------------------------------------------------------------------------
(* The file-system entries the runs draw from *)

ModeDir  == <<"d", "r", "w", "x", "r", "-", "x", "r", "-", "x">>
ModeFile == <<"-", "r", "w", "-", "r", "-", "-", "r", "-", "-">>
ModeSock == <<"s", "r", "w", "x", "r", "-", "x", "r", "-", "x">>

\* What fs.statSync and the id resolver give FileItem.create.
Stats(mode, username, groupname, size, month, day, hour, min) ==
    [ok |-> TRUE, mode |-> mode, username |-> username,
     groupname |-> groupname, size |-> size, month |-> month, day |-> day,
     hour |-> hour, min |-> min]

\* fs.statSync throwing.
StatError == [ok |-> FALSE]

\* FileItem.create
create(dir, filename, stats) ==
    FileItem(dir, filename,
             Head(stats.mode) = "d", Head(stats.mode) = "-",
             stats.username, stats.groupname,
             Num(stats.size), Num(stats.month), Num(stats.day),
             Num(stats.hour), Num(stats.min), stats.mode, FALSE)

Root == <<"/">>
NameX == <<"x">>
NameSub == <<"s", "u", "b">>
NameDot == <<".">>
NameDotDot == <<".", ".">>
NameATxt == <<"a", ".", "t", "x", "t">>
NameHidden == <<".", "h", "i", "d", "d", "e", "n">>
NameB == <<"b">>
OwnerRoot == <<"r", "o", "o", "t">>
OwnerEight == <<"d", "a", "e", "m", "o", "n", "1", "2">>
OwnerLong == <<"v", "e", "r", "y", "l", "o", "n", "g", "o", "w", "n", "e", "r">>
GroupStaff == <<"s", "t", "a", "f", "f">>

CodecNames == {NameX, NameSub, NameDot}
CodecModes == {ModeDir, ModeFile, ModeSock}
CodecOwners == {OwnerRoot, OwnerEight, OwnerLong}
CodecGroups == {GroupStaff, OwnerEight}
CodecSizes == {0, 42, 99999999, 100000000}
CodecMonths == {3, 12}
CodecHours == {9, 23}

\* Every FileItem FileItem.create can build from the sets above, selected
\* or not.
CodecItems ==
    { select(create(Root, nm, Stats(md, ow, gr, sz, mo, 5, hr, 3)), se) :
        nm \in CodecNames, md \in CodecModes, ow \in CodecOwners,
        gr \in CodecGroups, sz \in CodecSizes, mo \in CodecMonths,
        hr \in CodecHours, se \in BOOLEAN }

NoItem == FileItem(<<>>, <<>>, FALSE, TRUE, <<>>, <<>>, Num(0), Num(0), Num(0), Num(0), Num(0), <<>>, FALSE)

---------------------------------------------------------------------------
(* SpecCodec: one FileItem is encoded, decoded, and written back selected
   or unselected, as selectFiles does with each line. *)

CodecInit ==
    /\ item \in CodecItems
    /\ text = <<>>
    /\ parsed = NoItem
    /\ rewritten = <<>>
    /\ cpc = "new"

CodecIdle ==
    /\ item = NoItem
    /\ text = <<>>
    /\ parsed = NoItem
    /\ rewritten = <<>>
    /\ cpc = "idle"

\* text = item.line()
Line ==
    /\ cpc = "new"
    /\ text' = line(item)
    /\ cpc' = "encoded"
    /\ UNCHANGED <<item, parsed, rewritten>>

\* parsed = FileItem.parseLine(item dir, text)
ParseLine ==
    /\ cpc = "encoded"
    /\ parsed' = parseLine(item.dirname, text)
    /\ cpc' = "decoded"
    /\ UNCHANGED <<item, text, rewritten>>

\* f.select(value); this._buffers[i] = f.line()
Reselect(value) ==
    /\ cpc = "decoded"
    /\ rewritten' = line(select(parsed, value))
    /\ cpc' = "rewritten"
    /\ UNCHANGED <<item, text, parsed>>

---------------------------------------------------------------------------
(* The selection update of selectFiles *)

\* for (let i = start; i < end; i++) { ... } over this._buffers; i is the
\* 0-based line index, dirname the parent directory given to parseLine.
RECURSIVE selectLoop(_, _, _, _, _, _)
selectLoop(bufs, dirname, i, end, allowSelectDot, value) ==
    IF i >= end THEN bufs
    ELSE LET f == parseLine(dirname, bufs[i + 1])
             skip == (f.filename = NameDot \/ f.filename = NameDotDot)
                     /\ ~allowSelectDot
         IN IF skip
            THEN selectLoop(bufs, dirname, i + 1, end, allowSelectDot, value)
            ELSE selectLoop([bufs EXCEPT ![i + 1] = line(select(f, value))],
                            dirname, i + 1, end, allowSelectDot, value)

\* dirname + ":"  (the header line)
Header(dirname) == Append(dirname, ":")

MaxBody == 2
MaxApply == 2

SelItems ==
    { create(Root, NameX, Stats(ModeFile, OwnerRoot, GroupStaff, 42, 3, 5, 9, 3)),
      select(create(Root, NameATxt, Stats(ModeFile, OwnerRoot, GroupStaff, 5, 3, 5, 9, 3)), TRUE),
      create(Root, NameSub, Stats(ModeDir, OwnerRoot, GroupStaff, 0, 3, 5, 9, 3)),
      create(Root, NameDot, Stats(ModeDir, OwnerRoot, GroupStaff, 0, 3, 5, 9, 3)),
      create(Root, NameDotDot, Stats(ModeDir, OwnerRoot, GroupStaff, 0, 3, 5, 9, 3)) }

SeqsUpTo(S, n) == UNION { [1..k -> S] : k \in 0..n }

\* The buffer createBuffer would assemble from these FileItems.
BufferOf(dirname, items) ==
    <<Header(dirname)>> \o [i \in 1..Len(items) |-> line(items[i])]

SelectInit ==
    \E items \in SeqsUpTo(SelItems, MaxBody) :
        /\ Len(items) >= 1
        /\ shist = <<BufferOf(Root, items)>>
        /\ \E s \in 0..(Len(items) + 1), e \in 0..(Len(items) + 1) :
             \E v \in BOOLEAN, a \in BOOLEAN :
                /\ s <= e
                /\ sargs = [items |-> items, start |-> s, end |-> e,
                            value |-> v, allow |-> a]

SelectIdle ==
    /\ shist = <<>>
    /\ sargs = [items |-> <<>>, start |-> 0, end |-> 0,
                value |-> FALSE, allow |-> FALSE]

\* One more run of the selection loop over the buffer it last produced,
\* with the same range, value and allowSelectDot.
ApplySelect ==
    /\ Len(shist) >= 1
    /\ Len(shist) <= MaxApply
    /\ shist' = Append(shist,
                    selectLoop(shist[Len(shist)], Root, sargs.start,
                               sargs.end, sargs.allow, sargs.value))
    /\ UNCHANGED sargs

---------------------------------------------------------------------------
(* readDir *)

NameGhost == <<"g", "h", "o", "s", "t">>

\* The filter callback of readDir: fileItem is <<>> for null.
keepFile(fileItem, show) ==
    IF fileItem # <<>>
    THEN LET filename == fileItem[1].filename
         IN IF filename = NameDotDot \/ filename = NameDot THEN FALSE
            ELSE IF show THEN TRUE
            ELSE substring(filename, 0, 1) # <<".">>
    ELSE FALSE

\* A readDir whose filter lacks the test for "." and "..".
readDirKeepingDots(dirname, names, statOf, show) ==
    LET files == <<NameDot, NameDotDot>> \o names
        mapped == [i \in 1..Len(files) |->
                     IF statOf[files[i]].ok
                     THEN <<create(dirname, files[i], statOf[files[i]])>>
                     ELSE <<>>]
        keep(fi) == fi # <<>> /\ (show \/ Head(fi[1].filename) # ".")
        kept == SelectSeq(mapped, keep)
    IN [i \in 1..Len(kept) |-> kept[i][1]]

\* DiredProvider.readDir: names is what fs.readdirSync(dirname) returned,
\* statOf[name] what fs.statSync(path.join(dirname, name)) gives (StatError
\* when it throws), show is this._show_dot_files.
readDir(dirname, names, statOf, show) ==
    LET files == <<NameDot, NameDotDot>> \o names
        mapped == [i \in 1..Len(files) |->
                     IF statOf[files[i]].ok
                     THEN <<create(dirname, files[i], statOf[files[i]])>>
                     ELSE <<>>]
        keep(fi) == keepFile(fi, show)
        kept == SelectSeq(mapped, keep)
    IN [i \in 1..Len(kept) |-> kept[i][1]]

MaxDirEntries == 3

ListNames == {NameATxt, NameHidden, NameB, NameGhost}

ListStat(name) ==
    IF name \in {NameDot, NameDotDot, NameB}
    THEN Stats(ModeDir, OwnerRoot, GroupStaff, 0, 3, 5, 9, 3)
    ELSE Stats(ModeFile, OwnerRoot, GroupStaff, 42, 3, 5, 9, 3)

ListInit ==
    /\ \E names \in SeqsUpTo(ListNames, MaxDirEntries) :
         /\ \A i \in 1..Len(names), j \in 1..Len(names) :
               i # j => names[i] # names[j]
         /\ \E fail \in SUBSET ({ names[i] : i \in 1..Len(names) } \cup {NameDot}),
               show \in BOOLEAN :
               linput = [names |-> names, fail |-> fail, show |-> show]
    /\ lfiles = <<>>
    /\ lpc = "read"

ListIdle ==
    /\ linput = [names |-> <<>>, fail |-> {}, show |-> TRUE]
    /\ lfiles = <<>>
    /\ lpc = "idle"

\* files = this.readDir(dirname)
ReadDir ==
    /\ lpc = "read"
    /\ lfiles' = readDir(Root, linput.names,
                         [n \in ListNames \cup {NameDot, NameDotDot} |->
                            IF n \in linput.fail THEN StatError ELSE ListStat(n)],
                         linput.show)
    /\ lpc' = "done"
    /\ UNCHANGED linput

---------------------------------------------------------------------------
(* Paths (Node's path module, POSIX) *)

RECURSIVE splitPath(_, _)
splitPath(s, cur) ==
    IF s = <<>> THEN <<cur>>
    ELSE IF Head(s) = "/" THEN <<cur>> \o splitPath(Tail(s), <<>>)
    ELSE splitPath(Tail(s), Append(cur, Head(s)))

\* normalizeString: "" and "." segments dropped, ".." removes the segment
\* before it (kept when there is none and the path is relative).
RECURSIVE resolveSegments(_, _, _)
resolveSegments(segs, acc, allowAboveRoot) ==
    IF segs = <<>> THEN acc
    ELSE LET h == Head(segs)
             t == Tail(segs)
         IN IF h = <<>> \/ h = NameDot
            THEN resolveSegments(t, acc, allowAboveRoot)
            ELSE IF h = NameDotDot
            THEN IF acc # <<>> /\ acc[Len(acc)] # NameDotDot
                 THEN resolveSegments(t, SubSeq(acc, 1, Len(acc) - 1), allowAboveRoot)
                 ELSE IF allowAboveRoot
                 THEN resolveSegments(t, Append(acc, h), allowAboveRoot)
                 ELSE resolveSegments(t, acc, allowAboveRoot)
            ELSE resolveSegments(t, Append(acc, h), allowAboveRoot)

RECURSIVE joinSegments(_)
joinSegments(segs) ==
    IF segs = <<>> THEN <<>>
    ELSE IF Len(segs) = 1 THEN segs[1]
    ELSE segs[1] \o <<"/">> \o joinSegments(Tail(segs))

isAbsolute(p) == p # <<>> /\ Head(p) = "/"

\* path.normalize
normalize(p) ==
    IF p = <<>> THEN NameDot
    ELSE LET trailing == p[Len(p)] = "/"
             body == joinSegments(resolveSegments(splitPath(p, <<>>), <<>>,
                                                  ~isAbsolute(p)))
         IN IF body = <<>>
            THEN IF isAbsolute(p) THEN <<"/">>
                 ELSE IF trailing THEN <<".", "/">> ELSE NameDot
            ELSE (IF isAbsolute(p) THEN <<"/">> ELSE <<>>) \o body
                 \o (IF trailing THEN <<"/">> ELSE <<>>)

\* path.join(a, b): zero-length arguments are skipped.
pathJoin(a, b) ==
    IF a = <<>> THEN normalize(b)
    ELSE IF b = <<>> THEN normalize(a)
    ELSE normalize(a \o <<"/">> \o b)

\* FileItem.path
pathOf(f) == pathJoin(f.dirname, f.filename)

\* FileItem.uri of a directory item: dired://<path>.  A uri is modelled by
\* the path it is built from.
uriOf(dirname) == pathJoin(dirname, <<>>)

---------------------------------------------------------------------------
(* The file system: / holds the directory b and the dangling link ghost;
   /b holds the file .h.  /b may become unreadable or be removed.  The
   extension host's working directory is /. *)

DirB == <<"/", "b", "/">>
NameH == <<".", "h">>
KeyRoot == <<>>
KeyB == <<NameB>>
Cwd == Root
DirStates == {"ok", "unreadable", "gone"}

\* The segments a path resolves to.
keyOf(p) ==
    resolveSegments(splitPath(IF isAbsolute(p) THEN p ELSE Cwd \o <<"/">> \o p, <<>>),
                    <<>>, FALSE)

\* fs.lstatSync(p): "dir", "file", or "ENOENT" when it throws.
lstatSync(p, dsk) ==
    LET k == keyOf(p)
    IN IF k = KeyRoot THEN "dir"
       ELSE IF k = KeyB THEN (IF dsk = "gone" THEN "ENOENT" ELSE "dir")
       ELSE IF k = <<NameB, NameH>> /\ dsk # "gone" /\ p[Len(p)] # "/"
       THEN "file"
       ELSE "ENOENT"

\* fs.readdirSync(p) of a directory that can be read.
readdirSync(p, dsk) ==
    IF keyOf(p) = KeyRoot
    THEN IF dsk = "gone" THEN <<NameGhost>>
         ELSE <<NameB, NameGhost>>
    ELSE <<NameH>>

\* fs.statSync(path.join(p, name)) for the names of the directory p.
statSync(p, dsk) ==
    [n \in {NameDot, NameDotDot, NameB, NameGhost, NameH} |->
       IF n = NameGhost THEN StatError
       ELSE IF n \in {NameDot, NameDotDot, NameB}
       THEN Stats(ModeDir, OwnerRoot, GroupStaff, 0, 3, 5, 9, 3)
       ELSE Stats(ModeFile, OwnerRoot, GroupStaff, 42, 3, 5, 9, 3)]

\* Whether readdirSync(p) throws (EACCES).
readdirThrows(p, dsk) == keyOf(p) = KeyB /\ dsk = "unreadable"

---------------------------------------------------------------------------
(* DiredProvider *)

MaxLineLen == 54
MaxCursorMoves == 1

\* Default specification: the provider, its editor and its file system.
\* Nothing is open after construction.  _buffers is undefined (modelled by
\* the empty sequence: a buffer the code assigns always has a header).
ProvInit ==
    /\ buffers = <<>>
    /\ showDotFiles = TRUE
    /\ docs = <<>>
    /\ active = <<>>
    /\ opening = {}
    /\ changed = {}
    /\ cursorMoves = 0
    /\ unhandled = FALSE
    /\ disk = "ok"

ProvIdle == ProvInit

\* get dirname(): header of the active document without its last
\* character; <<>> stands for undefined and for "", both falsy.
dirname ==
    IF active = <<>> THEN <<>>
    ELSE LET line0 == docs[active][1]
         IN substring(line0, 0, Len(line0) - 1)

\* private get uri(): FIXED_URI is never reached with a truthy dirname.
uri == uriOf(dirname)

\* render(): this._buffers.join('\n'), which the editor splits into the
\* same lines again (no line of the model holds a line break).
render == buffers

\* this._onDidChange.fire(u): the editor re-fetches u only if it holds a
\* document for it.
fire(u) == IF u \in DOMAIN docs THEN changed \cup {u} ELSE changed

\* createBuffer(dir) with _show_dot_files = show: [rejected, buffers].
\* lstatSync is outside the try, so its exception rejects the promise
\* before _buffers is assigned; an exception of readDir is caught.
createBuffer(dir, show) ==
    IF lstatSync(dir, disk) = "ENOENT"
    THEN [rejected |-> TRUE, buffers |-> buffers]
    ELSE LET files == IF lstatSync(dir, disk) = "dir" /\ ~readdirThrows(dir, disk)
                      THEN readDir(dir, readdirSync(dir, disk),
                                   statSync(dir, disk), show)
                      ELSE <<>>
         IN [rejected |-> FALSE, buffers |-> BufferOf(dir, files)]

\* openDir(path) and openUpDir(path, basename): the buffer is rebuilt, then
\* openTextDocument(uri) is requested; a rejected createBuffer skips the
\* rest of the chain and nobody catches it.  (openUpDir differs only in the
\* cursor position it asks showTextDocument for.)
openDir(path) ==
    LET r == createBuffer(path, showDotFiles)
    IN /\ buffers' = r.buffers
       /\ unhandled' = (unhandled \/ r.rejected)
       /\ opening' = IF r.rejected THEN opening
                     ELSE opening \cup {uriOf(path)}
       /\ UNCHANGED <<showDotFiles, docs, active, changed, cursorMoves, disk>>

\* The extension's open command: openDir of the directory the user names.
open == openDir(Root)

\* getFile() for a cursor on line c (0-based), as enter() uses it.
getFile(c) == parseLine(dirname, docs[active][c + 1])

\* enter() on a directory line.  (On a file line showFile hands the file to
\* the editor and the provider's state is untouched.)
enter(c) ==
    /\ active # <<>>
    /\ c >= 1 /\ c < Len(docs[active])
    /\ dirname # <<>>
    /\ getFile(c).isDirectory
    /\ openDir(pathOf(getFile(c)))

\* goUpDir()
goUpDir ==
    /\ dirname # <<>>
    /\ dirname # <<"/">>
    /\ openDir(pathJoin(dirname, NameDotDot))

\* The body of reload() past its guard, with _show_dot_files = show:
\* createBuffer(this.dirname).then(() => this._onDidChange.fire(this.uri))
reloadBody(show) ==
    LET r == createBuffer(dirname, show)
    IN /\ buffers' = r.buffers
       /\ unhandled' = (unhandled \/ r.rejected)
       /\ changed' = IF r.rejected THEN changed ELSE fire(uri)

\* reload()
reload ==
    /\ dirname # <<>>
    /\ reloadBody(showDotFiles)
    /\ UNCHANGED <<showDotFiles, docs, active, opening, cursorMoves, disk>>

\* toggleDotFiles()
toggleDotFiles ==
    /\ showDotFiles' = ~showDotFiles
    /\ IF dirname # <<>> THEN reloadBody(~showDotFiles)
       ELSE UNCHANGED <<buffers, unhandled, changed>>
    /\ UNCHANGED <<docs, active, opening, cursorMoves, disk>>

\* at.selection as selectFiles reads it: [empty, start, end], lines 0-based.
\* An empty selection is the cursor (start = end = cursor.line).
Selections(lineCount) ==
    { [empty |-> TRUE, start |-> c, end |-> c] : c \in 0..(lineCount - 1) }
    \cup { [empty |-> FALSE, start |-> se[1], end |-> se[2]] :
             se \in { x \in (0..(lineCount - 1)) \X (0..(lineCount - 1)) :
                        x[1] <= x[2] } }

\* A select-all that starts at the header line.
targetRangeFromHeader(sel, lineCount) ==
    IF sel.empty
    THEN IF sel.start = 0
         THEN [start |-> 0, end |-> lineCount, allowSelectDot |-> FALSE,
               cursorMove |-> FALSE]
         ELSE [start |-> sel.start, end |-> sel.start + 1,
               allowSelectDot |-> TRUE, cursorMove |-> TRUE]
    ELSE [start |-> sel.start, end |-> sel.end, allowSelectDot |-> FALSE,
          cursorMove |-> FALSE]

\* start, end, allowSelectDot of selectFiles, and whether it issues the
\* cursorMove command.
targetRange(sel, lineCount) ==
    IF sel.empty
    THEN IF sel.start = 0
         THEN [start |-> 1, end |-> lineCount, allowSelectDot |-> FALSE,
               cursorMove |-> FALSE]
         ELSE [start |-> sel.start, end |-> sel.start + 1,
               allowSelectDot |-> TRUE, cursorMove |-> TRUE]
    ELSE [start |-> sel.start, end |-> sel.end, allowSelectDot |-> FALSE,
          cursorMove |-> FALSE]

\* selectFiles(value) with the editor's selection sel: _buffers is refilled
\* from the active document, the target lines are re-encoded, the change
\* is notified.  (select() is selectFiles(true), unselect() is
\* selectFiles(false).)
selectFiles(value, sel) ==
    /\ dirname # <<>>
    /\ sel \in Selections(Len(docs[active]))
    /\ \A i \in 1..Len(docs[active]) : Len(docs[active][i]) <= MaxLineLen
    /\ LET doc == docs[active]
           r == targetRange(sel, Len(doc))
       IN /\ r.cursorMove => cursorMoves < MaxCursorMoves
          /\ buffers' = selectLoop(doc, dirname, r.start, r.end,
                                   r.allowSelectDot, value)
          /\ cursorMoves' = IF r.cursorMove THEN cursorMoves + 1
                            ELSE cursorMoves
    /\ changed' = fire(uri)
    /\ UNCHANGED <<showDotFiles, docs, active, opening, unhandled, disk>>

\* The selections that are a bare cursor.
Cursors(lineCount) == { sel \in Selections(lineCount) : sel.empty }

\* select() with the cursor on any line and no active range.
selectCmd ==
    /\ active # <<>>
    /\ \E sel \in Cursors(Len(docs[active])) : selectFiles(TRUE, sel)

\* unselect() with the cursor on any line and no active range.
unselectCmd ==
    /\ active # <<>>
    /\ \E sel \in Cursors(Len(docs[active])) : selectFiles(FALSE, sel)

\* select() with any selection the editor can hold, ranges included.
selectGesture ==
    /\ active # <<>>
    /\ \E sel \in Selections(Len(docs[active])) : selectFiles(TRUE, sel)

\* unselect() with any selection the editor can hold, ranges included.
unselectGesture ==
    /\ active # <<>>
    /\ \E sel \in Selections(Len(docs[active])) : selectFiles(FALSE, sel)

\* enter() with the cursor on any body line.
enterCmd ==
    /\ active # <<>>
    /\ \E c \in 1..(Len(docs[active]) - 1) : enter(c)

---------------------------------------------------------------------------
(* The collaborators: the editor and the file system *)

\* The editor serves openTextDocument(u): a document it does not hold is
\* loaded through provideTextDocumentContent(u), which returns render()
\* whatever u is; then the callback shows it and it becomes the active one.
loadDocument(u) ==
    /\ u \in opening
    /\ docs' = IF u \in DOMAIN docs THEN docs
               ELSE [x \in DOMAIN docs \cup {u} |->
                       IF x = u THEN render ELSE docs[x]]
    /\ active' = u
    /\ opening' = opening \ {u}
    /\ UNCHANGED <<buffers, showDotFiles, changed, cursorMoves, unhandled, disk>>

\* The editor serves an onDidChange notification for u:
\* provideTextDocumentContent(u) again.
refresh(u) ==
    /\ u \in changed
    /\ docs' = IF u \in DOMAIN docs THEN [docs EXCEPT ![u] = render]
               ELSE docs
    /\ changed' = changed \ {u}
    /\ UNCHANGED <<buffers, showDotFiles, active, opening, cursorMoves,
                   unhandled, disk>>

\* The editor executes a cursorMove command.
executeCursorMove ==
    /\ cursorMoves > 0
    /\ cursorMoves' = cursorMoves - 1
    /\ UNCHANGED <<buffers, showDotFiles, docs, active, opening, changed,
                   unhandled, disk>>

\* Somebody takes away the read permission of /b, or removes it.
diskChange(st) ==
    /\ disk # "gone"
    /\ st \in {"unreadable", "gone"}
    /\ st # disk
    /\ disk' = st
    /\ UNCHANGED <<buffers, showDotFiles, docs, active, opening, changed,
                   cursorMoves, unhandled>>

---------------------------------------------------------------------------
(* Specifications *)

Pure == UNCHANGED <<codecVars, selectVars, listVars>>

Init == ProvInit /\ CodecIdle /\ SelectIdle /\ ListIdle

Next ==
    \/ open /\ Pure
    \/ enterCmd /\ Pure
    \/ goUpDir /\ Pure
    \/ reload /\ Pure
    \/ toggleDotFiles /\ Pure
    \/ selectCmd /\ Pure
    \/ unselectCmd /\ Pure
    \/ \E u \in opening : loadDocument(u) /\ Pure
    \/ \E u \in changed : refresh(u) /\ Pure
    \/ executeCursorMove /\ Pure
    \/ \E st \in DirStates : diskChange(st) /\ Pure

Spec == Init /\ [][Next]_vars

InitCodec == CodecInit /\ SelectIdle /\ ListIdle /\ ProvIdle

NextCodec ==
    \/ Line /\ UNCHANGED <<selectVars, listVars, provVars>>
    \/ ParseLine /\ UNCHANGED <<selectVars, listVars, provVars>>
    \/ \E value \in BOOLEAN :
         Reselect(value) /\ UNCHANGED <<selectVars, listVars, provVars>>

SpecCodec == InitCodec /\ [][NextCodec]_vars

InitSelect == SelectInit /\ CodecIdle /\ ListIdle /\ ProvIdle

NextSelect == ApplySelect /\ UNCHANGED <<codecVars, listVars, provVars>>

SpecSelect == InitSelect /\ [][NextSelect]_vars

InitList == ListInit /\ CodecIdle /\ SelectIdle /\ ProvIdle

NextList == ReadDir /\ UNCHANGED <<codecVars, selectVars, provVars>>

SpecList == InitList /\ [][NextList]_vars

(* SpecGesture: a dired document is open and shown; the user selects and
   unselects with every cursor position and every range, and the editor
   follows.  (Spec leaves the ranges to this specification.) *)

MaxGestureBody == 2

GestureItems ==
    { create(Root, NameX, Stats(ModeFile, OwnerRoot, GroupStaff, 42, 3, 5, 9, 3)),
      select(create(Root, NameH, Stats(ModeFile, OwnerRoot, GroupStaff, 5, 3, 5, 9, 3)), TRUE),
      create(Root, NameB, Stats(ModeDir, OwnerRoot, GroupStaff, 0, 3, 5, 9, 3)) }

GestureInit ==
    /\ \E items \in SeqsUpTo(GestureItems, MaxGestureBody) :
         /\ Len(items) >= 1
         /\ buffers = BufferOf(Root, items)
         /\ docs = [u \in {Root} |-> BufferOf(Root, items)]
    /\ active = Root
    /\ showDotFiles = TRUE
    /\ opening = {}
    /\ changed = {}
    /\ cursorMoves = 0
    /\ unhandled = FALSE
    /\ disk = "ok"

InitGesture == GestureInit /\ CodecIdle /\ SelectIdle /\ ListIdle

NextGesture ==
    \/ selectGesture /\ Pure
    \/ unselectGesture /\ Pure
    \/ \E u \in changed : refresh(u) /\ Pure
    \/ executeCursorMove /\ Pure

SpecGesture == InitGesture /\ [][NextGesture]_vars

---------------------------------------------------------------------------
(* Properties *)

\* The decimal numeral of a non-negative integer field.
Numeral(x) == numToString(x)

\* s preceded by as many c as it takes to reach width; s itself when it is
\* already that long.
LeftPadded(s, width, c) ==
    LET w == Max(width, Len(s))
    IN [i \in 1..w |-> IF i <= w - Len(s) THEN c ELSE s[i - (w - Len(s))]]

\* The first 8 characters of s followed by spaces.
Field8(s) == [i \in 1..8 |-> IF i <= Len(s) THEN s[i] ELSE " "]

\* The name as displayed: a directory's name carries a "/".
ShownName(f) == IF f.isDirectory THEN f.filename \o <<"/">> ELSE f.filename

\* One trailing "/" removed from the decoded name of a directory.
StripSlash(name, isDir) ==
    IF isDir /\ name # <<>> /\ name[Len(name)] = "/"
    THEN SubSeq(name, 1, Len(name) - 1)
    ELSE name

NonNegative(x) == ~x.nan /\ x.n >= 0

ValidEntry(f) ==
    /\ Len(f.username) <= 8
    /\ Len(f.groupname) <= 8
    /\ Len(f.modeStr) = 10
    /\ NonNegative(f.size) /\ NonNegative(f.month) /\ NonNegative(f.day)
    /\ NonNegative(f.hour) /\ NonNegative(f.min)

\* C1: round trip.  For every valid Entry E, parseLine(E.parentDir,
\* E.line()) equals E in the selected flag, mode, isDirectory, isFile,
\* owner, group, size, month, day, hour and minute, and in the name once
\* one trailing "/" is stripped from a directory's decoded name.
C1_RoundTrip ==
    (cpc \in {"decoded", "rewritten"} /\ ValidEntry(item)) =>
        /\ parsed.selected = item.selected
        /\ parsed.modeStr = item.modeStr
        /\ parsed.isDirectory = item.isDirectory
        /\ parsed.isFile = item.isFile
        /\ parsed.username = item.username
        /\ parsed.groupname = item.groupname
        /\ parsed.size = item.size
        /\ parsed.month = item.month
        /\ parsed.day = item.day
        /\ parsed.hour = item.hour
        /\ parsed.min = item.min
        /\ StripSlash(parsed.filename, item.isDirectory) = item.filename

\* C2: selecting or unselecting changes only column 0.  The line that
\* parseLine, select(v), line() write back has the length of the line
\* line() produced and agrees with it at every index other than 0.
C2_OnlyColumn0 ==
    cpc = "rewritten" =>
        /\ Len(rewritten) = Len(text)
        /\ \A i \in 2..Len(text) : rewritten[i] = text[i]

\* C6 as stated: every valid Entry is laid out with the marker at index 0,
\* the mode at [2,12), owner at [13,21), group at [22,30), the size at
\* [31,39), month at [40,42), day at [43,45), hour at [46,48), minute at
\* [49,51) and the name from column 52 on, no numeral being truncated.
C6_FixedColumns ==
    cpc # "new" =>
        /\ text[1] = (IF item.selected THEN "*" ELSE " ")
        /\ substring(text, 2, 12) = item.modeStr
        /\ substring(text, 13, 21) = Field8(item.username)
        /\ substring(text, 22, 30) = Field8(item.groupname)
        /\ substring(text, 31, 39) = LeftPadded(Numeral(item.size), 8, " ")
        /\ substring(text, 40, 42) = LeftPadded(Numeral(item.month), 2, "0")
        /\ substring(text, 43, 45) = LeftPadded(Numeral(item.day), 2, "0")
        /\ substring(text, 46, 48) = LeftPadded(Numeral(item.hour), 2, "0")
        /\ substring(text, 49, 51) = LeftPadded(Numeral(item.min), 2, "0")
        /\ substringFrom(text, 52) = ShownName(item)

\* By how many columns the size numeral exceeds its 8 columns.
SizeOverflow(f) == Max(8, Len(Numeral(f.size))) - 8

\* C6 amended: marker, mode, owner and group are at their fixed columns;
\* the size starts at column 31 as its whole numeral left-padded with
\* spaces to 8 characters, and takes k more columns when it has 8 + k
\* digits; month, day, hour, minute and the name follow k columns to the
\* right of [40,42), [43,45), [46,48), [49,51) and 52.  The name begins at
\* column 52 exactly when the size is below 10^8.
C6_ColumnsShiftWithSize ==
    cpc # "new" =>
        LET k == SizeOverflow(item)
        IN /\ text[1] = (IF item.selected THEN "*" ELSE " ")
           /\ text[2] = " "
           /\ substring(text, 2, 12) = item.modeStr
           /\ substring(text, 13, 21) = Field8(item.username)
           /\ substring(text, 22, 30) = Field8(item.groupname)
           /\ substring(text, 31, 39 + k) = LeftPadded(Numeral(item.size), 8, " ")
           /\ substring(text, 40 + k, 42 + k) = LeftPadded(Numeral(item.month), 2, "0")
           /\ substring(text, 43 + k, 45 + k) = LeftPadded(Numeral(item.day), 2, "0")
           /\ substring(text, 46 + k, 48 + k) = LeftPadded(Numeral(item.hour), 2, "0")
           /\ substring(text, 49 + k, 51 + k) = LeftPadded(Numeral(item.min), 2, "0")
           /\ substringFrom(text, 52 + k) = ShownName(item)
           /\ Len(text) = 52 + k + Len(ShownName(item))
           /\ (k = 0) <=> (item.size.n < 100000000)

\* A directory with a nine-digit size has been encoded.
C6_Witness ==
    /\ cpc = "encoded"
    /\ item.size = Num(100000000)
    /\ item.isDirectory
    /\ text[54] = "s"

\* The lines of the buffer that the update may have rewritten.
InRange(i) == sargs.start <= i /\ i < sargs.end

\* No entry of the buffer is "." or "..".
NoDotEntries ==
    \A i \in 1..Len(sargs.items) :
        sargs.items[i].filename \notin {NameDot, NameDotDot}

\* C3: selection idempotence.  On a buffer of file and directory entries,
\* applying the selection update with value = true and allowDotEntries =
\* false again (same range, past the header) leaves the lines as the first
\* application left them.
C3_SelectTwiceIsOnce ==
    (Len(shist) >= 3 /\ sargs.value /\ ~sargs.allow /\ sargs.start >= 1
       /\ NoDotEntries) =>
        \A k \in 3..Len(shist) : shist[k] = shist[2]

NamesOf(files) == [i \in 1..Len(files) |-> files[i].filename]

\* The position of a name in a sequence of distinct names.
IndexIn(name, names) == CHOOSE i \in 1..Len(names) : names[i] = name

\* C9: listing filter and order.  The body readDir produces never holds
\* "." or ".."; with showDotFiles false it holds no name starting with ".";
\* it holds every other entry of the directory read whose stat succeeded
\* (with showDotFiles true all of them, with false those not starting with
\* "."), drops the entries whose stat fails and nothing else, and keeps the
\* order of the directory read.
C9_ListingFilterAndOrder ==
    lpc = "done" =>
        LET read == <<NameDot, NameDotDot>> \o linput.names
            out == NamesOf(lfiles)
            has(n) == \E i \in 1..Len(out) : out[i] = n
        IN /\ ~has(NameDot) /\ ~has(NameDotDot)
           /\ ~linput.show => \A i \in 1..Len(out) : Head(out[i]) # "."
           /\ \A j \in 1..Len(read) :
                 ( /\ read[j] \notin linput.fail
                   /\ read[j] \notin {NameDot, NameDotDot}
                   /\ (linput.show \/ Head(read[j]) # ".") ) => has(read[j])
           /\ \A i \in 1..Len(out) :
                 /\ \E j \in 1..Len(read) : read[j] = out[i]
                 /\ out[i] \notin linput.fail
           /\ \A i \in 1..Len(out), j \in 1..Len(out) :
                 i < j => IndexIn(out[i], read) < IndexIn(out[j], read)

\* The directory read [a.txt, ghost, .hidden] with ghost's stat failing and
\* showDotFiles false has been listed, and only a.txt is left.
C9_Witness ==
    /\ lpc = "done"
    /\ linput.names = <<NameATxt, NameGhost, NameHidden>>
    /\ linput.fail = {NameGhost}
    /\ ~linput.show
    /\ NamesOf(lfiles) = <<NameATxt>>

\* The target range the gestures are specified to have: [lo, hi) and
\* whether the cursor is then moved.
GestureRange(sel, lineCount) ==
    IF sel.empty /\ sel.start = 0
    THEN [lo |-> 1, hi |-> lineCount, move |-> FALSE]
    ELSE IF sel.empty
    THEN [lo |-> sel.start, hi |-> sel.start + 1, move |-> TRUE]
    ELSE [lo |-> sel.start, hi |-> sel.end, move |-> FALSE]

\* What C10 asks of one selectFiles(value) step under the selection sel.
GestureFrame(value, sel) ==
    LET doc == docs[active]
        g == GestureRange(sel, Len(doc))
    IN /\ Len(buffers') = Len(doc)
       /\ \A i \in 1..Len(doc) :
            (i - 1 < g.lo \/ i - 1 >= g.hi) => buffers'[i] = doc[i]
       /\ \A i \in 1..Len(doc) :
            (g.lo <= i - 1 /\ i - 1 < g.hi /\ i > 1)
                => buffers'[i][1] = (IF value THEN "*" ELSE " ")
       /\ cursorMoves' = cursorMoves + (IF g.move THEN 1 ELSE 0)
       /\ docs' = docs /\ active' = active

\* C10: gesture target range and frame.  select()/unselect() re-encodes
\* only lines of the target range and leaves every other line as it was,
\* the buffer keeping its length and order; the range is [1, lineCount)
\* for a cursor on line 0 (no cursor move), [c, c + 1) for a cursor on a
\* body line c (one cursorMove down is issued), and [start line, end line)
\* for an active range (no cursor move).
C10_GestureRangeAndFrame ==
    [][active # <<>> =>
         \A value \in BOOLEAN :
            \A sel \in Selections(Len(docs[active])) :
                selectFiles(value, sel) => GestureFrame(value, sel)]_vars

\* A select on body line 1 of a two-entry listing has marked that line,
\* left the other lines alone and issued its cursor move.
C10_Witness ==
    /\ active = Root
    /\ Len(buffers) = 3
    /\ docs[Root][2][1] = " " /\ buffers[2][1] = "*"
    /\ buffers[3] = docs[Root][3]
    /\ buffers[1] = Header(Root)
    /\ cursorMoves = 1
    /\ changed = {Root}

\* C4: header exclusion.  Whatever the cursor and the range, select() and
\* unselect() leave line 0 of the buffer as it was in the document.
C4_HeaderUntouched ==
    [][active # <<>> =>
         \A value \in BOOLEAN :
            \A sel \in Selections(Len(docs[active])) :
                selectFiles(value, sel) => buffers'[1] = docs[active][1]]_vars

\* The directory cannot be listed: it is not there, or may not be read.
CannotList(dir) ==
    lstatSync(dir, disk) = "ENOENT" \/ readdirThrows(dir, disk)

\* The directories a step of the provider may rebuild the buffer for.
RebuildTargets ==
    IF active = <<>> THEN {Root}
    ELSE {Root, dirname, pathJoin(dirname, NameDotDot)}
         \cup { pathOf(getFile(c)) : c \in 1..(Len(docs[active]) - 1) }

\* A step that runs createBuffer(dir).
Rebuilds(dir) ==
    \/ openDir(dir)
    \/ dirname = dir /\ reload
    \/ dirname = dir /\ toggleDotFiles

\* C7: a directory that cannot be listed degrades to an empty listing.
\* Every rebuild for such a directory leaves the buffer equal to its one
\* header line and ends in no unhandled failure.
C7_UnlistableGivesHeaderOnly ==
    [][\A dir \in RebuildTargets :
          (dir # <<>> /\ CannotList(dir) /\ Rebuilds(dir)) =>
              /\ buffers' = <<Header(dir)>>
              /\ unhandled' = unhandled]_vars

\* C8: atomic rebuild-then-notify.  No operation replaces the buffer between
\* its rebuild for a directory D and the editor's fetch for D's uri, so in
\* every interleaving the text the editor holds for D's uri has "D:" as its
\* first line.
C8_FetchedTextIsOfItsDirectory ==
    \A u \in DOMAIN docs : docs[u][1] = Header(u)

====
